---- MODULE Spec2Model ----
(***************************************************************************)
(* Model of the editor's undo/redo history (src/lib/historyManager.ts)     *)
(* together with the caller-side document content that useHistory feeds    *)
(* into it (src/hooks/useHistory.ts), of the Editor component and the      *)
(* editor store that drive it, and of the autosave hook.                   *)
(*                                                                         *)
(* Six specifications share the variables:                                 *)
(*   Spec         the HistoryManager called with arbitrary arguments       *)
(*   SpecEditor   store + Editor component + useHistory (no save path)     *)
(*   SpecAutoSave store + useAutoSave + the saves it starts                *)
(*   SpecRecent   the store's recent-files list                            *)
(*   SpecAutoSaveFair  useAutoSave alone, its timer served                 *)
(*   SpecSession  the mounted Editor with the saves the user starts        *)
(* Each holds the variables of the others at fixed values.                 *)
(*                                                                         *)
(* A HistoryState is a record [content, timestamp].  A value of type       *)
(* `HistoryState | null` is a sequence of length <= 1: <<>> is null and    *)
(* <<s>> is the state s.                                                   *)
(***************************************************************************)
EXTENDS Integers, Sequences, FiniteSets, Bags, TLC

\* ---- bounds of the model ------------------------------------------------
MaxSizeBound == 3

\* ---- value domains ---------------------------------------------------------
Contents == {"a", "b"}
Timestamps == {1, 2}
HistoryState == [content : Contents, timestamp : Timestamps]
MaxSizes == 1..MaxSizeBound
MaxLog == MaxSizeBound + 1

\* capacity of the history the hook builds; stands for new HistoryManager(100)
HookMaxSize == 2

\* file paths and the readings of Date.now() seen by the editor
Paths == {"p", "q"}
Clock == {1}

\* the store's first content, and the content of a new document
INITIAL_DEFAULT_CONTENT == "a"
EmptyContent == ""

VARIABLES
  undoStack,   \* HistoryManager.undoStack  (oldest first, top last)
  redoStack,   \* HistoryManager.redoStack  (top last)
  maxSize,     \* HistoryManager.maxSize
  live,        \* the document content the caller holds (getContent())
  lastOp,      \* observation: the last call, its argument, result and pre-state
  undone,      \* observation: arguments of the successful undos not yet redone
  redone,      \* observation: <<c>> when the last call was a successful redo(c), c = live
  run,         \* observation: progress of a push* ; undo* ; redo* session
  fed          \* observation: every undo/redo so far was passed the live content

VARIABLES
  content,          \* useEditorStore: content
  filePath,         \* useEditorStore: filePath (<<>> is null, <<p>> is the path p)
  isDirty,          \* useEditorStore: isDirty
  storeCanUndo,     \* useEditorStore: canUndo
  storeCanRedo,     \* useEditorStore: canRedo
  localContent,     \* Editor: useState(content)
  localContentRef,  \* Editor: localContentRef.current
  prevFilePathRef,  \* Editor: prevFilePathRef.current
  typingTimers,     \* Editor: pending edit-commit timers, oldest first, each
                    \*   holding the newContent its callback captured
  mounted,          \* Editor: the component is mounted
  lastEv,           \* observation: the last editor event and the state before it
  burst             \* observation: the user edits made since the last load while a
                    \*   timer was pending: the last one, whether they differed,
                    \*   and the timer pushes made since

VARIABLES
  autoSaveTimers,   \* useAutoSave: pending timers, each holding the filePath
                    \*   and isDirty its performAutoSave callback captured
  isSaving,         \* useAutoSave: isSavingRef.current
  inflight,         \* the saves awaiting a dialog or a save_file result: a bag
  autoSaveMounted,  \* useAutoSave: the hook is mounted
  lastAuto          \* observation: the last autosave event, the store before it,
                    \*   and whether it made autosave start a save

VARIABLES
  recentFiles,      \* store: recentFiles, most recent first
  recentCalls,      \* calls made on the recent-files list so far
  lastRecent        \* observation: the last call on the list and the list before it

historyVars == <<undoStack, redoStack, maxSize>>

historyObs == <<live, lastOp, undone, redone, run, fed>>

storeVars == <<content, filePath, isDirty, storeCanUndo, storeCanRedo>>

editorVars == <<localContent, localContentRef, prevFilePathRef, typingTimers,
                mounted, lastEv, burst>>

autoSaveVars == <<autoSaveTimers, isSaving, inflight, autoSaveMounted, lastAuto>>

recentVars == <<recentFiles, recentCalls, lastRecent>>

vars == <<historyVars, historyObs, storeVars, editorVars, autoSaveVars, recentVars>>

\* ---- helpers --------------------------------------------------------------
null == <<>>

Last(s) == s[Len(s)]

Front(s) == SubSeq(s, 1, Len(s) - 1)

\* Array.prototype.shift: drop index 0
Shift(s) == SubSeq(s, 2, Len(s))

\* no two neighbouring snapshots of s carry the same content
AdjacentDistinct(s) == \A i \in 1..(Len(s) - 1) : s[i].content # s[i + 1].content

\* every snapshot of s carries the same content
AllSameContent(s) == \A i \in 1..Len(s) : s[i].content = s[1].content

\* the last n elements of s (all of s when it is shorter)
LastN(s, n) == IF Len(s) <= n THEN s ELSE SubSeq(s, Len(s) - n + 1, Len(s))

this == [undoStack |-> undoStack, redoStack |-> redoStack, maxSize |-> maxSize]

\* ---- HistoryManager methods as functions on the object state --------------

push_keepsRedo(self, state) ==
  IF Len(self.undoStack) > 0 /\ Last(self.undoStack).content = state.content
  THEN self
  ELSE LET pushed == Append(self.undoStack, state) IN
       [self EXCEPT !.undoStack =
                      IF Len(pushed) > self.maxSize THEN Shift(pushed) ELSE pushed]

push_dedupWholeState(self, state) ==
  IF Len(self.undoStack) > 0 /\ Last(self.undoStack) = state
  THEN self
  ELSE LET pushed == Append(self.undoStack, state) IN
       [self EXCEPT !.undoStack =
                      IF Len(pushed) > self.maxSize THEN Shift(pushed) ELSE pushed,
                    !.redoStack = <<>>]

push_evictsNewest(self, state) ==
  IF Len(self.undoStack) > 0 /\ Last(self.undoStack).content = state.content
  THEN self
  ELSE LET pushed == Append(self.undoStack, state) IN
       [self EXCEPT !.undoStack =
                      IF Len(pushed) > self.maxSize THEN Front(pushed) ELSE pushed,
                    !.redoStack = <<>>]

push(self, state) ==
  IF Len(self.undoStack) > 0 /\ Last(self.undoStack).content = state.content
  THEN self
  ELSE LET pushed == Append(self.undoStack, state) IN
       [self EXCEPT !.undoStack =
                      IF Len(pushed) > self.maxSize THEN Shift(pushed) ELSE pushed,
                    !.redoStack = <<>>]

undo_returnsPopped(self, currentState) ==
  IF Len(self.undoStack) < 1
  THEN [self |-> self, ret |-> null]
  ELSE IF Len(self.undoStack) = 1
  THEN [self |-> [self EXCEPT !.redoStack = Append(@, currentState),
                              !.undoStack = <<>>],
        ret  |-> <<self.undoStack[1]>>]
  ELSE [self |-> [self EXCEPT !.undoStack = Front(@),
                              !.redoStack = Append(@, currentState)],
        ret  |-> <<Last(self.undoStack)>>]

undo_needsTwo(self, currentState) ==
  IF Len(self.undoStack) < 2
  THEN [self |-> self, ret |-> null]
  ELSE [self |-> [self EXCEPT !.undoStack = Front(@),
                              !.redoStack = Append(@, currentState)],
        ret  |-> <<Last(Front(self.undoStack))>>]

undo_archivesOnFailure(self, currentState) ==
  IF Len(self.undoStack) < 1
  THEN [self |-> [self EXCEPT !.redoStack = Append(@, currentState)],
        ret  |-> null]
  ELSE IF Len(self.undoStack) = 1
  THEN [self |-> [self EXCEPT !.redoStack = Append(@, currentState),
                              !.undoStack = <<>>],
        ret  |-> <<self.undoStack[1]>>]
  ELSE [self |-> [self EXCEPT !.undoStack = Front(@),
                              !.redoStack = Append(@, currentState)],
        ret  |-> <<Last(Front(self.undoStack))>>]

undo_archivesPopped(self, currentState) ==
  IF Len(self.undoStack) < 1
  THEN [self |-> self, ret |-> null]
  ELSE IF Len(self.undoStack) = 1
  THEN [self |-> [self EXCEPT !.redoStack = Append(@, self.undoStack[1]),
                              !.undoStack = <<>>],
        ret  |-> <<self.undoStack[1]>>]
  ELSE [self |-> [self EXCEPT !.undoStack = Front(@),
                              !.redoStack = Append(@, Last(self.undoStack))],
        ret  |-> <<Last(Front(self.undoStack))>>]

undo(self, currentState) ==
  IF Len(self.undoStack) < 1
  THEN [self |-> self, ret |-> null]
  ELSE IF Len(self.undoStack) = 1
  THEN [self |-> [self EXCEPT !.redoStack = Append(@, currentState),
                              !.undoStack = <<>>],
        ret  |-> <<self.undoStack[1]>>]
  ELSE [self |-> [self EXCEPT !.undoStack = Front(@),
                              !.redoStack = Append(@, currentState)],
        ret  |-> <<Last(Front(self.undoStack))>>]

redo_dropsCurrent(self, currentState) ==
  IF Len(self.redoStack) = 0
  THEN [self |-> self, ret |-> null]
  ELSE [self |-> [self EXCEPT !.redoStack = Front(@)],
        ret  |-> <<Last(self.redoStack)>>]

redo_takesOldest(self, currentState) ==
  IF Len(self.redoStack) = 0
  THEN [self |-> self, ret |-> null]
  ELSE [self |-> [self EXCEPT !.redoStack = Shift(@),
                              !.undoStack = Append(@, currentState)],
        ret  |-> <<self.redoStack[1]>>]

redo_peeks(self, currentState) ==
  IF Len(self.redoStack) = 0
  THEN [self |-> self, ret |-> null]
  ELSE [self |-> [self EXCEPT !.undoStack = Append(@, currentState)],
        ret  |-> <<Last(self.redoStack)>>]

redo(self, currentState) ==
  IF Len(self.redoStack) = 0
  THEN [self |-> self, ret |-> null]
  ELSE [self |-> [self EXCEPT !.redoStack = Front(@),
                              !.undoStack = Append(@, currentState)],
        ret  |-> <<Last(self.redoStack)>>]

canUndo_needsTwo(self) == Len(self.undoStack) > 1

canUndo(self) == Len(self.undoStack) > 0

canRedo(self) == Len(self.redoStack) > 0

clear_keepsRedo(self) == [self EXCEPT !.undoStack = <<>>]

clear(self) == [self EXCEPT !.undoStack = <<>>, !.redoStack = <<>>]

getStats(self) == [undoCount |-> Len(self.undoStack), redoCount |-> Len(self.redoStack)]

\* ---- observation of a call ------------------------------------------------
Call(op, arg, ret) ==
  [op |-> op, arg |-> arg, ret |-> ret,
   preUndo |-> undoStack, preRedo |-> redoStack, preLive |-> live,
   preUndone |-> undone, preRedone |-> redone]

FreshRun == [phase |-> "push", log |-> <<>>, undos |-> 0, redos |-> 0]

OffRun == [phase |-> "off", log |-> <<>>, undos |-> 0, redos |-> 0]

\* a call passes the live content when its argument carries the caller's content
PassesLive(currentState) == currentState.content = live

RunAfterPush(state) ==
  IF /\ run.phase = "push"
     /\ Len(run.log) < MaxLog
  THEN [run EXCEPT !.log = Append(@, state)]
  ELSE OffRun

RunAfterUndo(currentState) ==
  IF /\ run.phase \in {"push", "undo"}
     /\ Len(run.log) >= 2
     /\ AdjacentDistinct(run.log)
     /\ Len(run.log) <= maxSize
     /\ run.undos < Len(run.log) - 1
     /\ PassesLive(currentState)
  THEN [run EXCEPT !.phase = "undo", !.undos = @ + 1]
  ELSE OffRun

RunAfterRedo(currentState) ==
  IF /\ run.phase \in {"undo", "redo"}
     /\ run.undos = Len(run.log) - 1
     /\ run.redos < Len(run.log) - 1
     /\ PassesLive(currentState)
  THEN [run EXCEPT !.phase = "redo", !.redos = @ + 1]
  ELSE OffRun

\* ---- values of the variables a specification does not use ----------------------
NoEvent == [ev |-> "none"]

NoBurst == [last |-> <<>>, differed |-> FALSE, pushes |-> 0]

StoreAbsent ==
  /\ content = EmptyContent
  /\ filePath = <<>>
  /\ isDirty = FALSE
  /\ storeCanUndo = FALSE
  /\ storeCanRedo = FALSE

EditorAbsent ==
  /\ localContent = EmptyContent
  /\ localContentRef = EmptyContent
  /\ prevFilePathRef = <<>>
  /\ typingTimers = <<>>
  /\ mounted = FALSE
  /\ lastEv = NoEvent
  /\ burst = NoBurst

AutoSaveAbsent ==
  /\ autoSaveTimers = <<>>
  /\ isSaving = FALSE
  /\ inflight = EmptyBag
  /\ autoSaveMounted = FALSE
  /\ lastAuto = NoEvent

RecentAbsent ==
  /\ recentFiles = <<>>
  /\ recentCalls = 0
  /\ lastRecent = NoEvent

HistoryObsAbsent ==
  /\ live = EmptyContent
  /\ lastOp = [op |-> "none"]
  /\ undone = <<>>
  /\ redone = <<>>
  /\ run = OffRun
  /\ fed = TRUE

\* ---- the state machine ------------------------------------------------------
Init ==
  /\ StoreAbsent
  /\ EditorAbsent
  /\ AutoSaveAbsent
  /\ RecentAbsent
  /\ maxSize \in MaxSizes
  /\ undoStack = <<>>
  /\ redoStack = <<>>
  /\ live \in Contents
  /\ lastOp = [op |-> "new", arg |-> null, ret |-> null,
               preUndo |-> <<>>, preRedo |-> <<>>, preLive |-> live,
               preUndone |-> <<>>, preRedone |-> <<>>]
  /\ undone = <<>>
  /\ redone = <<>>
  /\ run = FreshRun
  /\ fed = TRUE

Push(state) ==
  LET after == push(this, state) IN
  /\ undoStack' = after.undoStack
  /\ redoStack' = after.redoStack
  /\ live' = state.content
  /\ lastOp' = Call("push", <<state>>, null)
  /\ undone' = <<>>
  /\ redone' = <<>>
  /\ run' = RunAfterPush(state)
  /\ fed' = fed
  /\ UNCHANGED <<maxSize, storeVars, editorVars, autoSaveVars, recentVars>>

Undo(currentState) ==
  LET res == undo(this, currentState) IN
  /\ undoStack' = res.self.undoStack
  /\ redoStack' = res.self.redoStack
  /\ live' = IF res.ret # null THEN res.ret[1].content ELSE live
  /\ lastOp' = Call("undo", <<currentState>>, res.ret)
  /\ undone' = IF res.ret # null THEN Append(undone, currentState) ELSE undone
  /\ redone' = <<>>
  /\ run' = RunAfterUndo(currentState)
  /\ fed' = (fed /\ PassesLive(currentState))
  /\ UNCHANGED <<maxSize, storeVars, editorVars, autoSaveVars, recentVars>>

Redo(currentState) ==
  LET res == redo(this, currentState) IN
  /\ undoStack' = res.self.undoStack
  /\ redoStack' = res.self.redoStack
  /\ live' = IF res.ret # null THEN res.ret[1].content ELSE live
  /\ lastOp' = Call("redo", <<currentState>>, res.ret)
  /\ undone' = IF undone # <<>> THEN Front(undone) ELSE <<>>
  /\ redone' = IF res.ret # null /\ PassesLive(currentState)
               THEN <<currentState.content>>
               ELSE <<>>
  /\ run' = RunAfterRedo(currentState)
  /\ fed' = (fed /\ PassesLive(currentState))
  /\ UNCHANGED <<maxSize, storeVars, editorVars, autoSaveVars, recentVars>>

Clear ==
  LET after == clear(this) IN
  /\ undoStack' = after.undoStack
  /\ redoStack' = after.redoStack
  /\ lastOp' = Call("clear", null, null)
  /\ undone' = <<>>
  /\ redone' = <<>>
  /\ run' = FreshRun
  /\ fed' = TRUE
  /\ UNCHANGED <<maxSize, live, storeVars, editorVars, autoSaveVars, recentVars>>

\* canUndo(), canRedo(), getStats(): they return a value and assign nothing.
\* lastOp then holds the read, so the observed run of pushes, undos and redos
\* ends with it.
CanUndo ==
  /\ lastOp' = Call("canUndo", null, <<canUndo(this)>>)
  /\ run' = OffRun
  /\ UNCHANGED <<historyVars, live, undone, redone, fed,
                 storeVars, editorVars, autoSaveVars, recentVars>>

CanRedo ==
  /\ lastOp' = Call("canRedo", null, <<canRedo(this)>>)
  /\ run' = OffRun
  /\ UNCHANGED <<historyVars, live, undone, redone, fed,
                 storeVars, editorVars, autoSaveVars, recentVars>>

GetStats ==
  /\ lastOp' = Call("getStats", null, <<getStats(this)>>)
  /\ run' = OffRun
  /\ UNCHANGED <<historyVars, live, undone, redone, fed,
                 storeVars, editorVars, autoSaveVars, recentVars>>

Next ==
  \/ \E state \in HistoryState : Push(state)
  \/ \E currentState \in HistoryState : Undo(currentState)
  \/ \E currentState \in HistoryState : Redo(currentState)
  \/ Clear
  \/ CanUndo
  \/ CanRedo
  \/ GetStats

Spec == Init /\ [][Next]_vars

\* ---- shorthands for the observed call ----------------------------------------
Called(op) == lastOp.op = op

Arg == lastOp.arg[1]

Returned(s) == lastOp.ret = <<s>>

ReturnedNull == lastOp.ret = null

StacksUntouched == undoStack = lastOp.preUndo /\ redoStack = lastOp.preRedo

\* the push just made met a top entry with the content it carried
DedupedPush ==
  /\ Called("push")
  /\ lastOp.preUndo # <<>>
  /\ Last(lastOp.preUndo).content = Arg.content

\* ---- C1 ------------------------------------------------------------------------
\* C1: push(s) is a complete no-op when the top entry of undoStack has the
\* content of s (both stacks are left as they were), and so pushing one content
\* N >= 1 times in a row onto an empty history leaves undoCount = 1.
C1_PushDedupIsNoOp ==
  /\ DedupedPush => StacksUntouched
  /\ (run.phase = "push" /\ Len(run.log) >= 1 /\ AllSameContent(run.log))
       => getStats(this).undoCount = 1

C1_Witness ==
  /\ DedupedPush
  /\ Arg # Last(lastOp.preUndo)
  /\ run.phase = "push" /\ Len(run.log) >= 3 /\ AllSameContent(run.log)

\* ---- C2 ------------------------------------------------------------------------
\* C2: a push whose content differs from the top of undoStack, or that meets an
\* empty undoStack, leaves redoStack empty whatever it held; a deduplicated
\* push leaves redoStack untouched.
C2_RedoInvalidation ==
  Called("push") =>
    IF DedupedPush THEN redoStack = lastOp.preRedo
                   ELSE redoStack = <<>> /\ ~canRedo(this)

C2_Witness ==
  /\ Called("push")
  /\ ~DedupedPush
  /\ Len(lastOp.preUndo) >= 1
  /\ Len(lastOp.preRedo) >= 2

\* ---- C3 ------------------------------------------------------------------------
\* C3: after pushing snapshots with distinct consecutive contents onto a fresh
\* history, undoStack holds the last maxSize of them in push order (all of
\* them while fewer than maxSize were pushed).
C3_BoundedHistory ==
  (run.phase = "push" /\ AdjacentDistinct(run.log))
    => /\ undoStack = LastN(run.log, maxSize)
       /\ (Len(run.log) >= maxSize => getStats(this).undoCount = maxSize)

C3_Witness ==
  /\ run.phase = "push"
  /\ AdjacentDistinct(run.log)
  /\ maxSize >= 2
  /\ Len(run.log) > maxSize

C5_SingleEntryUndo ==
  (Called("undo") /\ Len(lastOp.preUndo) = 1)
    => /\ Returned(lastOp.preUndo[1])
       /\ undoStack = <<>>
       /\ ~canUndo(this)
       /\ redoStack = Append(lastOp.preRedo, Arg)
       /\ canRedo(this)
       /\ \A s \in HistoryState : undo(this, s).ret = null

C5_Witness ==
  /\ Called("undo")
  /\ Len(lastOp.preUndo) = 1
  /\ Arg.content # lastOp.preUndo[1].content
  /\ maxSize >= 2

\* ---- C6 ------------------------------------------------------------------------
\* C6: undo on an empty undoStack and redo on an empty redoStack return null
\* and leave both stacks exactly as they were.
C6_BoundaryNoOps ==
  /\ (Called("undo") /\ lastOp.preUndo = <<>>) => (ReturnedNull /\ StacksUntouched)
  /\ (Called("redo") /\ lastOp.preRedo = <<>>) => (ReturnedNull /\ StacksUntouched)

C6_Witness ==
  /\ Called("undo")
  /\ lastOp.preUndo = <<>>
  /\ lastOp.preRedo # <<>>

\* ---- C7 ------------------------------------------------------------------------
\* C7: redo(current) on a non-empty redoStack pops and returns its top and
\* pushes current onto undoStack; the rest of both stacks is unchanged.
C7_RedoPopsAndArchives ==
  (Called("redo") /\ lastOp.preRedo # <<>>)
    => /\ Returned(Last(lastOp.preRedo))
       /\ redoStack = Front(lastOp.preRedo)
       /\ undoStack = Append(lastOp.preUndo, Arg)
       /\ getStats(this) = [undoCount |-> Len(lastOp.preUndo) + 1,
                            redoCount |-> Len(lastOp.preRedo) - 1]

C7_Witness ==
  /\ Called("redo")
  /\ Len(lastOp.preRedo) >= 2
  /\ Len(lastOp.preUndo) >= 1
  /\ Arg.content # Last(lastOp.preUndo).content

\* ---- C8 ------------------------------------------------------------------------
\* C8: after pushes s1..sn (n >= 2, n <= maxSize, distinct consecutive
\* contents) with every call passed the live content, the n-1 undos all return
\* a snapshot, the following redos return s2, ..., sn in that order, and after
\* the last of the n-1 redos the live content is that of sn again.
C8_UndoRedoRoundTrip ==
  /\ run.phase = "undo" => ~ReturnedNull
  /\ run.phase = "redo" =>
       /\ ~ReturnedNull
       /\ lastOp.ret[1].content = run.log[run.redos + 1].content
       /\ (run.redos = Len(run.log) - 1 => live = Last(run.log).content)

C8_Witness ==
  /\ run.phase = "redo"
  /\ Len(run.log) >= 3
  /\ run.redos = Len(run.log) - 1

\* ---- C9 ------------------------------------------------------------------------
\* C9: a redo that follows successful undos returns the state that was passed
\* to the most recent undo not yet redone (so a redo right after undo(c)
\* returns content c, and redos return the archived states last-undone first).
C9_RedoReturnsUndoArgument ==
  (Called("redo") /\ lastOp.preUndone # <<>>)
    => /\ ~ReturnedNull
       /\ lastOp.ret[1].content = Last(lastOp.preUndone).content

C9_Witness ==
  /\ Called("redo")
  /\ Len(lastOp.preUndone) >= 2
  /\ Last(lastOp.preUndone).content # lastOp.preUndone[1].content
  /\ Arg.content # Last(lastOp.preUndone).content

\* ---- C10 -----------------------------------------------------------------------
\* C10: when redo(c), called with the live content c, returned r, an undo(r)
\* made right after it returns a snapshot with content c.
C10_UndoInvertsRedo ==
  (/\ Called("undo")
   /\ fed
   /\ lastOp.preRedone # <<>>
   /\ Arg.content = lastOp.preLive)
    => /\ ~ReturnedNull
       /\ lastOp.ret[1].content = lastOp.preRedone[1]

\* ---- C11 -----------------------------------------------------------------------
\* C11: clear() empties both stacks from any state, so canUndo() and canRedo()
\* are false and getStats() reports {undoCount: 0, redoCount: 0}.
C11_ClearEmptiesBoth ==
  Called("clear")
    => /\ undoStack = <<>>
       /\ redoStack = <<>>
       /\ ~canUndo(this)
       /\ ~canRedo(this)
       /\ getStats(this) = [undoCount |-> 0, redoCount |-> 0]

C11_Witness ==
  /\ Called("clear")
  /\ Len(lastOp.preUndo) >= 1
  /\ Len(lastOp.preRedo) >= 1

\* ---- C29 ------------------------------------------------------------------------
\* C29: in every state canUndo() is true exactly when undoStack is non-empty,
\* canRedo() exactly when redoStack is non-empty, and getStats() gives the
\* lengths of the two stacks; a call of any of the three returns that value
\* and leaves both stacks as they were.
C29_ReadAccessors ==
  /\ canUndo(this) <=> Len(undoStack) > 0
  /\ canRedo(this) <=> Len(redoStack) > 0
  /\ getStats(this) = [undoCount |-> Len(undoStack), redoCount |-> Len(redoStack)]
  /\ Called("canUndo") => (StacksUntouched /\ lastOp.ret = <<Len(undoStack) > 0>>)
  /\ Called("canRedo") => (StacksUntouched /\ lastOp.ret = <<Len(redoStack) > 0>>)
  /\ Called("getStats")
       => /\ StacksUntouched
          /\ lastOp.ret = <<[undoCount |-> Len(undoStack), redoCount |-> Len(redoStack)]>>

C29_Witness ==
  /\ Called("canUndo")
  /\ lastOp.ret = <<TRUE>>
  /\ Len(undoStack) = 1
  /\ Len(redoStack) >= 1

\* ---- C33 ------------------------------------------------------------------------
\* C33: in every state reached by push, undo, redo and clear on a history with
\* maxSize >= 1, undoCount <= maxSize and undoCount + redoCount <= maxSize
\* (redo pushes onto undoStack without a capacity check, and the bound still
\* holds).
C33_StacksWithinCapacity ==
  maxSize >= 1 =>
    /\ getStats(this).undoCount <= maxSize
    /\ getStats(this).undoCount + getStats(this).redoCount <= maxSize

C33_Witness ==
  /\ Called("redo")
  /\ ~ReturnedNull
  /\ Len(lastOp.preUndo) >= 1
  /\ getStats(this).undoCount = maxSize
  /\ maxSize >= 2

\* ---- C34 ------------------------------------------------------------------------
\* C34: when every undo and redo was passed the live content (the content the
\* previous undo or redo returned, or the last pushed content), no two
\* adjacent entries of undoStack have the same content.
C34_NoAdjacentDuplicates ==
  fed => AdjacentDistinct(undoStack)

\* ==============================================================================
\* The editor: store (stores/editorStore.ts), file operations (lib/fileOps.ts),
\* useHistory (hooks/useHistory.ts) and the Editor component.
\*
\* Handlers are functions on a record w of the store fields, the Editor's
\* state and refs, and the hook's HistoryManager hm.  A handler runs to
\* completion, then React renders and runs the effects whose dependencies
\* changed, before the next event or timer is served.
\* ==============================================================================
World ==
  [content |-> content, filePath |-> filePath, isDirty |-> isDirty,
   canUndo |-> storeCanUndo, canRedo |-> storeCanRedo,
   localContent |-> localContent, localContentRef |-> localContentRef,
   prevFilePathRef |-> prevFilePathRef, typingTimers |-> typingTimers,
   hm |-> this, inflight |-> inflight, isSaving |-> isSaving]

\* ---- useEditorStore actions ---------------------------------------------------
setContent(w, newContent) == [w EXCEPT !.content = newContent, !.isDirty = TRUE]

setFilePath(w, path) == [w EXCEPT !.filePath = path]

setDirty(w, dirty) == [w EXCEPT !.isDirty = dirty]

setCanUndo(w, flag) == [w EXCEPT !.canUndo = flag]

setCanRedo(w, flag) == [w EXCEPT !.canRedo = flag]

resetDocument(w) ==
  [w EXCEPT !.content = EmptyContent, !.filePath = null, !.isDirty = FALSE,
            !.canUndo = FALSE, !.canRedo = FALSE]

\* ---- lib/fileOps.ts -------------------------------------------------------------
newFile(w) == resetDocument(w)

openFileByPath_leavesDirty(w, fileInfo) ==
  setFilePath(setContent(w, fileInfo.content), <<fileInfo.path>>)

\* the store writes made once read_file and preprocessImages have resolved
openFileByPath(w, fileInfo) ==
  setDirty(setFilePath(setContent(w, fileInfo.content), <<fileInfo.path>>), FALSE)

\* ---- hooks/useHistory.ts --------------------------------------------------------
pushHistory(w, state, now) ==
  [w EXCEPT !.hm = push(@, [content |-> state, timestamp |-> now])]

clearHistory(w) == [w EXCEPT !.hm = clear(@)]

\* Editor.getCurrentContent, the getContent handed to useHistory
getCurrentContent(w) == w.localContentRef

useHistory_undo_skipsSetContent(w, now) ==
  LET currentState == [content |-> getCurrentContent(w), timestamp |-> now]
      res == undo(w.hm, currentState)
      w1 == [w EXCEPT !.hm = res.self]
  IN  IF res.ret # null
      THEN [w |-> w1, ret |-> <<res.ret[1].content>>, previousState |-> res.ret]
      ELSE [w |-> w1, ret |-> null, previousState |-> null]

useHistory_undo(w, now) ==
  LET currentState == [content |-> getCurrentContent(w), timestamp |-> now]
      res == undo(w.hm, currentState)
      w1 == [w EXCEPT !.hm = res.self]
  IN  IF res.ret # null
      THEN [w |-> setContent(w1, res.ret[1].content),
            ret |-> <<res.ret[1].content>>, previousState |-> res.ret]
      ELSE [w |-> w1, ret |-> null, previousState |-> null]

useHistory_redo(w, now) ==
  LET currentState == [content |-> getCurrentContent(w), timestamp |-> now]
      res == redo(w.hm, currentState)
      w1 == [w EXCEPT !.hm = res.self]
  IN  IF res.ret # null
      THEN [w |-> setContent(w1, res.ret[1].content),
            ret |-> <<res.ret[1].content>>, nextState |-> res.ret]
      ELSE [w |-> w1, ret |-> null, nextState |-> null]

\* ---- the Editor component -------------------------------------------------------
setLocalContent(w, newContent) == [w EXCEPT !.localContent = newContent]

\* clearTimeout(typingTimeoutRef.current): the ref holds the timer created last,
\* which is the newest pending one, or one that has fired already
clearTypingTimeout(timers) == IF timers # <<>> THEN Front(timers) ELSE timers

handleContentChange_pushesNow(w, newContent) ==
  LET w1 == setContent(setLocalContent(w, newContent), newContent)
  IN  pushHistory([w1 EXCEPT !.typingTimers = clearTypingTimeout(@)], newContent, 1)

handleContentChange_stacksTimers(w, newContent) ==
  LET w1 == setContent(setLocalContent(w, newContent), newContent)
  IN  [w1 EXCEPT !.typingTimers = Append(@, newContent)]

handleContentChange(w, newContent) ==
  LET w1 == setContent(setLocalContent(w, newContent), newContent)
  IN  [w1 EXCEPT !.typingTimers = Append(clearTypingTimeout(@), newContent)]

\* the callback of the edit-commit timer: pushHistory(newContent)
typingTimeoutFired(w, now) ==
  pushHistory([w EXCEPT !.typingTimers = Tail(@)], Head(w.typingTimers), now)

handleUndo(w, now) ==
  LET r == useHistory_undo(w, now)
  IN  [w |-> IF r.ret # null THEN setLocalContent(r.w, r.ret[1]) ELSE r.w,
       ret |-> r.ret, fromHistory |-> r.previousState]

handleRedo(w, now) ==
  LET r == useHistory_redo(w, now)
  IN  [w |-> IF r.ret # null THEN setLocalContent(r.w, r.ret[1]) ELSE r.w,
       ret |-> r.ret, fromHistory |-> r.nextState]

\* ---- the Editor's effects, in declaration order ---------------------------------
syncLocalContentRef_never(w) == w

\* useEffect(() => { localContentRef.current = localContent }, [localContent])
syncLocalContentRef(w) == [w EXCEPT !.localContentRef = w.localContent]

\* the mount-only effect: pushHistory(content)
initializeHistory(w, now) == pushHistory(w, w.content, now)

externalContentEffect_keepsLocal(w, now) ==
  IF w.prevFilePathRef # w.filePath
  THEN pushHistory(clearHistory([w EXCEPT !.prevFilePathRef = w.filePath]),
                   w.content, now)
  ELSE w

\* useEffect(..., [content, filePath, ...]): adopt the store content and reset
\* the history when the file path changed
externalContentEffect(w, now) ==
  LET w1 == setLocalContent(w, w.content)
  IN  IF w1.prevFilePathRef # w1.filePath
      THEN pushHistory(clearHistory([w1 EXCEPT !.prevFilePathRef = w1.filePath]),
                       w1.content, now)
      ELSE w1

\* useEffect(() => { setCanUndo(canUndo()); setCanRedo(canRedo()) }, [localContent, ...])
publishHistoryFlags(w) == setCanRedo(setCanUndo(w, canUndo(w.hm)), canRedo(w.hm))

\* one commit: rendered is the state the previous render saw, w the state now
commitEffects(rendered, w, now) ==
  LET localChanged == w.localContent # rendered.localContent
      documentChanged == w.content # rendered.content \/ w.filePath # rendered.filePath
      w1 == IF localChanged THEN syncLocalContentRef(w) ELSE w
      w2 == IF documentChanged THEN externalContentEffect(w1, now) ELSE w1
  IN  IF localChanged THEN publishHistoryFlags(w2) ELSE w2

\* render after a handler, and once more for the state an effect has set
render(rendered, w, now) == commitEffects(w, commitEffects(rendered, w, now), now)

\* the first render: every effect runs
mountEditor(now) ==
  LET w0 == [content |-> INITIAL_DEFAULT_CONTENT, filePath |-> null, isDirty |-> FALSE,
             canUndo |-> FALSE, canRedo |-> FALSE,
             localContent |-> INITIAL_DEFAULT_CONTENT,
             localContentRef |-> INITIAL_DEFAULT_CONTENT,
             prevFilePathRef |-> null, typingTimers |-> <<>>,
             hm |-> [undoStack |-> <<>>, redoStack |-> <<>>, maxSize |-> HookMaxSize]]
      w1 == syncLocalContentRef(w0)
      w2 == initializeHistory(w1, now)
      w3 == externalContentEffect(w2, now)
  IN  publishHistoryFlags(w3)

\* ---- observation ------------------------------------------------------------------
Ev(ev, arg, ret, fromHistory) ==
  [ev |-> ev, arg |-> arg, ret |-> ret, fromHistory |-> fromHistory,
   pre |-> World, preBurst |-> burst]

Holds(w) ==
  /\ content = w.content
  /\ filePath = w.filePath
  /\ isDirty = w.isDirty
  /\ storeCanUndo = w.canUndo
  /\ storeCanRedo = w.canRedo
  /\ localContent = w.localContent
  /\ localContentRef = w.localContentRef
  /\ prevFilePathRef = w.prevFilePathRef
  /\ typingTimers = w.typingTimers
  /\ undoStack = w.hm.undoStack
  /\ redoStack = w.hm.redoStack
  /\ maxSize = w.hm.maxSize

Becomes(w) ==
  /\ content' = w.content
  /\ filePath' = w.filePath
  /\ isDirty' = w.isDirty
  /\ storeCanUndo' = w.canUndo
  /\ storeCanRedo' = w.canRedo
  /\ localContent' = w.localContent
  /\ localContentRef' = w.localContentRef
  /\ prevFilePathRef' = w.prevFilePathRef
  /\ typingTimers' = w.typingTimers
  /\ undoStack' = w.hm.undoStack
  /\ redoStack' = w.hm.redoStack
  /\ maxSize' = w.hm.maxSize

\* ---- the editor's state machine ---------------------------------------------------
EditorInit ==
  /\ \E now \in Clock : Holds(mountEditor(now))
  /\ mounted = TRUE
  /\ lastEv = NoEvent
  /\ burst = NoBurst
  /\ HistoryObsAbsent
  /\ AutoSaveAbsent
  /\ RecentAbsent

\* the textarea's onChange
UserEdit(newContent, now) ==
  /\ mounted
  /\ Becomes(render(World, handleContentChange(World, newContent), now))
  /\ lastEv' = Ev("edit", <<newContent>>, null, null)
  /\ burst' = IF typingTimers # <<>> /\ burst.last # <<>>
              THEN [burst EXCEPT !.last = <<newContent>>,
                                 !.differed = @ \/ burst.last # <<newContent>>]
              ELSE [last |-> <<newContent>>, differed |-> FALSE, pushes |-> 0]
  /\ UNCHANGED <<mounted, historyObs, autoSaveVars, recentVars>>

\* the oldest pending edit-commit timer fires
TypingTimerFire(now) ==
  /\ typingTimers # <<>>
  /\ Becomes(typingTimeoutFired(World, now))
  /\ lastEv' = Ev("typingFire", <<Head(typingTimers)>>, null, null)
  /\ burst' = [burst EXCEPT !.pushes = @ + 1]
  /\ UNCHANGED <<mounted, historyObs, autoSaveVars, recentVars>>

\* the 'editor-undo' event
UndoEvent(now) ==
  /\ mounted
  /\ LET r == handleUndo(World, now) IN
       /\ Becomes(render(World, r.w, now))
       /\ lastEv' = Ev("undo", null, r.ret, r.fromHistory)
  /\ UNCHANGED <<mounted, burst, historyObs, autoSaveVars, recentVars>>

\* the 'editor-redo' event
RedoEvent(now) ==
  /\ mounted
  /\ LET r == handleRedo(World, now) IN
       /\ Becomes(render(World, r.w, now))
       /\ lastEv' = Ev("redo", null, r.ret, r.fromHistory)
  /\ UNCHANGED <<mounted, burst, historyObs, autoSaveVars, recentVars>>

\* openFileByPath(path) resolves with the file's content
OpenFile(path, fileContent, now) ==
  /\ mounted
  /\ Becomes(render(World, openFileByPath(World, [path |-> path, content |-> fileContent]), now))
  /\ lastEv' = Ev("open", <<fileContent>>, null, null)
  /\ burst' = NoBurst
  /\ UNCHANGED <<mounted, historyObs, autoSaveVars, recentVars>>

\* newFile()
NewFile(now) ==
  /\ mounted
  /\ Becomes(render(World, newFile(World), now))
  /\ lastEv' = Ev("new", <<EmptyContent>>, null, null)
  /\ burst' = NoBurst
  /\ UNCHANGED <<mounted, historyObs, autoSaveVars, recentVars>>

\* the Editor unmounts: its listeners go, nothing else is cleaned up
UnmountEditor ==
  /\ mounted
  /\ mounted' = FALSE
  /\ lastEv' = Ev("unmount", null, null, null)
  /\ burst' = NoBurst
  /\ UNCHANGED <<historyVars, storeVars, localContent, localContentRef,
                 prevFilePathRef, typingTimers, historyObs, autoSaveVars, recentVars>>

EditorNext ==
  \/ \E newContent \in Contents, now \in Clock : UserEdit(newContent, now)
  \/ \E now \in Clock : TypingTimerFire(now)
  \/ \E now \in Clock : UndoEvent(now)
  \/ \E now \in Clock : RedoEvent(now)
  \/ \E path \in Paths, fileContent \in Contents, now \in Clock :
       OpenFile(path, fileContent, now)
  \/ \E now \in Clock : NewFile(now)
  \/ UnmountEditor

SpecEditor == EditorInit /\ [][EditorNext]_vars

\* ---- shorthands for the observed editor event -------------------------------------
Happened(ev) == lastEv.ev = ev

Loaded == Happened("open") \/ Happened("new")

HistoryUntouched ==
  /\ undoStack = lastEv.pre.hm.undoStack
  /\ redoStack = lastEv.pre.hm.redoStack

\* the undo or redo just handled got a snapshot from the HistoryManager
Stepped(ev) == Happened(ev) /\ lastEv.fromHistory # null

\* ---- C12 ------------------------------------------------------------------------
\* C12: a user edit sets the store content to newContent and isDirty to true in
\* the same step and leaves both history stacks as they were; its push is
\* left to the edit-commit timer, which is pending after the step.
C12_EditWritesStoreNotHistory ==
  Happened("edit")
    => /\ content = lastEv.arg[1]
       /\ isDirty
       /\ HistoryUntouched
       /\ typingTimers # <<>>
       /\ Last(typingTimers) = lastEv.arg[1]

C12_Witness ==
  /\ Happened("edit")
  /\ ~lastEv.pre.isDirty
  /\ lastEv.arg[1] # lastEv.pre.content
  /\ Last(lastEv.pre.hm.undoStack).content # lastEv.arg[1]

\* ---- C13 ------------------------------------------------------------------------
\* C13: at most one edit-commit timer is pending at any time, and when the
\* timer of a burst of edits fires it pushes the content of the last edit of
\* the burst, it is the only push of that burst, and no timer stays pending.
C13_DebounceCoalescing ==
  /\ Len(typingTimers) <= 1
  /\ (Happened("typingFire") /\ lastEv.preBurst.last # <<>>)
       => /\ lastEv.arg = lastEv.preBurst.last
          /\ burst.pushes = 1
          /\ typingTimers = <<>>

C13_Witness ==
  /\ Happened("typingFire")
  /\ lastEv.preBurst.last # <<>>
  /\ lastEv.preBurst.differed

\* ---- C14 ------------------------------------------------------------------------
\* C14: when the edit-commit timer fires, the content it pushes into history
\* is the store content at that moment.
C14_TimerPushesCanonicalContent ==
  Happened("typingFire") => lastEv.arg[1] = lastEv.pre.content

\* ---- C15 ------------------------------------------------------------------------
\* C15: after a file is opened or a new document is created, the store content
\* and the Editor's local content both equal the loaded content and isDirty is
\* false.
C15_LoadSetsContentClean ==
  Loaded
    => /\ content = lastEv.arg[1]
       /\ localContent = lastEv.arg[1]
       /\ ~isDirty

C15_Witness ==
  /\ Happened("open")
  /\ lastEv.pre.isDirty
  /\ lastEv.pre.content # lastEv.arg[1]
  /\ lastEv.pre.filePath # <<>>

\* ---- C16 ------------------------------------------------------------------------
\* C16: after every file open and every new-document creation the history is
\* exactly one snapshot, carrying the loaded content, and redoStack is empty.
C16_LoadResetsHistory ==
  Loaded
    => /\ Len(undoStack) = 1
       /\ undoStack[1].content = lastEv.arg[1]
       /\ redoStack = <<>>

\* ---- C17 ------------------------------------------------------------------------
\* C17: an edit-commit timer fires only while the Editor is mounted and only
\* for an edit made since the last load: a load or an unmount leaves no push
\* of an earlier edit to come.
C17_NoPushAcrossLoadOrUnmount ==
  Happened("typingFire") => (mounted /\ lastEv.preBurst.last # <<>>)

\* ---- C18 ------------------------------------------------------------------------
\* C18: when the HistoryManager returns a snapshot to the coordinator's undo or
\* redo, store content and local content become the returned content, isDirty
\* becomes true and that content is returned; when it returns null, null is
\* returned and content, local content, isDirty and both stacks are unchanged.
C18_CoordinatorUndoRedo ==
  (Happened("undo") \/ Happened("redo"))
    => IF lastEv.fromHistory # null
       THEN /\ content = lastEv.fromHistory[1].content
            /\ localContent = lastEv.fromHistory[1].content
            /\ isDirty
            /\ lastEv.ret = <<lastEv.fromHistory[1].content>>
       ELSE /\ lastEv.ret = null
            /\ content = lastEv.pre.content
            /\ localContent = lastEv.pre.localContent
            /\ isDirty = lastEv.pre.isDirty
            /\ HistoryUntouched

C18_Witness ==
  /\ Stepped("undo")
  /\ lastEv.fromHistory[1].content # lastEv.pre.content
  /\ lastEv.pre.hm.redoStack # <<>>

\* ---- C19 ------------------------------------------------------------------------
\* C19: the state an undo archives on redoStack, and the state a redo archives
\* on undoStack, carries the store content of the moment of the call.
C19_ArchivesLiveContent ==
  /\ Stepped("undo") => (redoStack # <<>> /\ Last(redoStack).content = lastEv.pre.content)
  /\ Stepped("redo") => (undoStack # <<>> /\ Last(undoStack).content = lastEv.pre.content)

C19_Witness ==
  /\ Stepped("redo")
  /\ lastEv.pre.content # INITIAL_DEFAULT_CONTENT
  /\ lastEv.pre.content # lastEv.fromHistory[1].content

\* s begins with the entries of t, in order
StartsWith(s, t) == Len(t) <= Len(s) /\ SubSeq(s, 1, Len(t)) = t

\* ---- C31 ------------------------------------------------------------------------
\* C31: once an undo has put a state on redoStack, nothing but a user edit or a
\* document load clears it: a timer firing, an undo or an unmount keeps every
\* entry redoStack held, a redo only pops its top, and so canRedo() stays true
\* from the undo until the next edit, load or redo, also when an edit-commit
\* timer was pending at the undo.
C31_RedoSurvivesUntilEditOrLoad ==
  /\ (lastEv.ev \in {"typingFire", "undo", "unmount"} /\ canRedo(lastEv.pre.hm))
       => (StartsWith(redoStack, lastEv.pre.hm.redoStack) /\ canRedo(this))
  /\ Stepped("redo") => redoStack = Front(lastEv.pre.hm.redoStack)

\* ---- C36 ------------------------------------------------------------------------
\* C36: whenever the mounted Editor is idle (every handler and the effects it
\* caused have run), the canUndo and canRedo flags of the store equal
\* canUndo() and canRedo() of the HistoryManager.
C36_PublishedFlagsCurrent ==
  mounted => /\ storeCanUndo = canUndo(this)
             /\ storeCanRedo = canRedo(this)

\* ==============================================================================
\* Autosave: useAutoSave (hooks/useAutoSave.ts) over the store, and the saves of
\* lib/fileOps.ts it starts.
\*
\* Handlers are functions on a record w of the store fields and the hook's
\* refs.  After every handler React renders the hook and runs its effect if a
\* dependency changed, before the next event, timer or promise is served.
\* ==============================================================================
\* explicit saves (Ctrl+S, menu) that may be awaiting their result at one time
MaxExplicitSaves == 1

\* results of the save_file command: result.success true or false, or the
\* invoke promise rejects
Outcomes == {"success", "failure", "rejected"}

\* a save in flight: who started it, through which function, what it awaits,
\* and the path and content it captured
Saves ==
  [by : {"auto", "user"}, via : {"saveFile", "saveFileAs"}, awaiting : {"dialog", "save_file"},
   path : {null} \cup {<<path>> : path \in Paths}, content : Contents \cup {EmptyContent}]

DialogSaves == {e \in Saves : e.awaiting = "dialog" /\ e.via = "saveFileAs" /\ e.path = null}

CommandSaves == {e \in Saves : e.awaiting = "save_file" /\ e.path # null}

AutoSaveWorld ==
  [content |-> content, filePath |-> filePath, isDirty |-> isDirty,
   canUndo |-> storeCanUndo, canRedo |-> storeCanRedo,
   autoSaveTimers |-> autoSaveTimers, isSaving |-> isSaving,
   inflight |-> inflight, autoSaveMounted |-> autoSaveMounted]

\* ---- lib/fileOps.ts: saving -----------------------------------------------------
\* up to its first await: the save dialog is open
saveFileAs(w, by) ==
  [w EXCEPT !.inflight = @ (+) SetToBag({[by |-> by, via |-> "saveFileAs", awaiting |-> "dialog",
                                          path |-> null, content |-> w.content]})]

saveFile_clearsDirtyEarly(w, by) ==
  IF w.filePath = null
  THEN saveFileAs(w, by)
  ELSE [w EXCEPT !.isDirty = FALSE,
                 !.inflight = @ (+) SetToBag({[by |-> by, via |-> "saveFile", awaiting |-> "save_file",
                                               path |-> w.filePath, content |-> w.content]})]

\* up to its first await: save_file is invoked with the store's filePath and content
saveFile(w, by) ==
  IF w.filePath = null
  THEN saveFileAs(w, by)
  ELSE [w EXCEPT !.inflight = @ (+) SetToBag({[by |-> by, via |-> "saveFile", awaiting |-> "save_file",
                                               path |-> w.filePath, content |-> w.content]})]

\* the saves in flight less one copy of save
Without(flights, save) == flights (-) SetToBag({save})

saveReturned_keepsGuard(w, by) == w

\* performAutoSave's finally block, reached when the save it awaited is over
saveReturned(w, by) == IF by = "auto" THEN [w EXCEPT !.isSaving = FALSE] ELSE w

\* the dialog of the save e closes: selected is a path, or null on cancel
dialogClosed(w, e, selected) ==
  LET w1 == [w EXCEPT !.inflight = Without(@, e)] IN
  IF selected = null
  THEN saveReturned(w1, e.by)
  ELSE [w1 EXCEPT !.inflight =
          @ (+) SetToBag({[e EXCEPT !.awaiting = "save_file", !.path = selected]})]

saveSettled_clearsDirtyAlways(w, e, outcome) ==
  saveReturned(setDirty([w EXCEPT !.inflight = Without(@, e)], FALSE), e.by)

saveSettled_rewritesPath(w, e, outcome) ==
  LET w1 == [w EXCEPT !.inflight = Without(@, e)]
      w2 == IF outcome # "success" THEN w1 ELSE setDirty(setFilePath(w1, e.path), FALSE)
  IN  saveReturned(w2, e.by)

\* the save_file command of the save e resolves
saveSettled(w, e, outcome) ==
  LET w1 == [w EXCEPT !.inflight = Without(@, e)]
      w2 == IF outcome # "success" THEN w1
            ELSE IF e.via = "saveFileAs" THEN setDirty(setFilePath(w1, e.path), FALSE)
            ELSE setDirty(w1, FALSE)
  IN  saveReturned(w2, e.by)

\* ---- hooks/useAutoSave.ts -------------------------------------------------------
clearAutoSaveTimer_keeps(w) == w

\* clearTimeout(timerRef.current): the pending timer, if any, is dropped
clearAutoSaveTimer(w) ==
  IF w.autoSaveTimers = <<>> THEN w ELSE [w EXCEPT !.autoSaveTimers = Front(@)]

\* performAutoSave as created by the render that saw filePath and isDirty
\* equal to captured: the guard reads the captured values and the ref
performAutoSave_ignoresGuard(w, captured) ==
  IF captured.filePath = null \/ ~captured.isDirty
  THEN w
  ELSE saveFile([w EXCEPT !.isSaving = TRUE], "auto")

performAutoSave(w, captured) ==
  IF captured.filePath = null \/ ~captured.isDirty \/ w.isSaving
  THEN w
  ELSE saveFile([w EXCEPT !.isSaving = TRUE], "auto")

autoSaveTimerFired(w) ==
  performAutoSave([w EXCEPT !.autoSaveTimers = Tail(@)], Head(w.autoSaveTimers))

\* the effect: runs when content, filePath or isDirty differ from the last
\* render (performAutoSave changes only with filePath and isDirty); its
\* cleanup and its first lines clear the pending timer
autoSaveEffect_armsWithoutPath(rendered, w) ==
  IF ~w.autoSaveMounted
       \/ <<rendered.content, rendered.filePath, rendered.isDirty>>
            = <<w.content, w.filePath, w.isDirty>>
  THEN w
  ELSE LET w1 == clearAutoSaveTimer(w) IN
       IF w1.isDirty
       THEN [w1 EXCEPT !.autoSaveTimers =
               Append(@, [filePath |-> w1.filePath, isDirty |-> w1.isDirty])]
       ELSE w1

autoSaveEffect(rendered, w) ==
  IF ~w.autoSaveMounted
       \/ <<rendered.content, rendered.filePath, rendered.isDirty>>
            = <<w.content, w.filePath, w.isDirty>>
  THEN w
  ELSE LET w1 == clearAutoSaveTimer(w) IN
       IF w1.filePath # null /\ w1.isDirty
       THEN [w1 EXCEPT !.autoSaveTimers =
               Append(@, [filePath |-> w1.filePath, isDirty |-> w1.isDirty])]
       ELSE w1

unmountAutoSave_leavesTimer(w) == [w EXCEPT !.autoSaveMounted = FALSE]

\* the hook unmounts: the effect's cleanup clears the timer
unmountAutoSave(w) == [clearAutoSaveTimer(w) EXCEPT !.autoSaveMounted = FALSE]

\* ---- observation ------------------------------------------------------------------
RECURSIVE Copies(_, _)
Copies(saves, flights) ==
  IF saves = {} THEN 0
  ELSE LET e == CHOOSE x \in saves : TRUE
       IN  CopiesIn(e, flights) + Copies(saves \ {e}, flights)

SavesBy(by, flights) == Copies({e \in BagToSet(flights) : e.by = by}, flights)

\* what an event settles: who started the save, through which function, for
\* which path, whether the content it carries is the store's content of the
\* moment, and how the awaited call came out
Settled(save, outcome) ==
  <<[by |-> save.by, via |-> save.via, path |-> save.path,
     latest |-> save.content = content, outcome |-> outcome]>>

\* autosave starts and content writes counted by the last event
EditsSoFar ==
  IF lastAuto.ev \in {"none", "open", "new"} \/ lastAuto.started THEN 0 ELSE lastAuto.edits

OwedSoFar == IF lastAuto.ev = "none" THEN FALSE ELSE lastAuto.owed

StartsSoFar == IF lastAuto.ev = "none" THEN 0 ELSE lastAuto.sinceEdit

Min(m, n) == IF m < n THEN m ELSE n

\* about: the save an event settles and its outcome, else null;
\* pre: the store and the hook before an event of a save or of autosave;
\* edits: content writes, up to 2, since the latest load or autosave start
\*   before this event;
\* sinceEdit: saves started by autosave since the last content write, up to 2;
\* owed: the last content write that changed the content met a non-null
\*   filePath, no save in flight and the hook mounted, and since then there
\*   was no load, reset or unmount and no save_file was invoked with the
\*   store's path and content
AutoEv(ev, about, w) ==
  LET started == SavesBy("auto", w.inflight) > SavesBy("auto", inflight)
      carried == \E e \in BagToSet(w.inflight) :
                   /\ CopiesIn(e, w.inflight) > CopiesIn(e, inflight)
                   /\ e.awaiting = "save_file"
                   /\ e.path = w.filePath
                   /\ e.content = w.content
  IN
  [ev |-> ev, about |-> about,
   pre |-> IF ev \in {"setContent", "open", "new"} THEN null
           ELSE [content |-> content, filePath |-> filePath, isDirty |-> isDirty,
                 isSaving |-> isSaving, autoSaveTimers |-> autoSaveTimers,
                 owed |-> OwedSoFar],
   started |-> started,
   owed |-> IF ev = "setContent" /\ w.content # content
            THEN w.filePath # null /\ w.inflight = EmptyBag /\ w.autoSaveMounted
            ELSE IF ev \in {"open", "new", "unmount"} \/ carried THEN FALSE
            ELSE OwedSoFar,
   edits |-> IF ev = "setContent" THEN Min(2, EditsSoFar + 1) ELSE EditsSoFar,
   sinceEdit |-> IF ev = "setContent" THEN 0
                 ELSE IF started THEN Min(2, StartsSoFar + 1)
                 ELSE StartsSoFar]

BecomesAuto(w) ==
  /\ content' = w.content
  /\ filePath' = w.filePath
  /\ isDirty' = w.isDirty
  /\ storeCanUndo' = w.canUndo
  /\ storeCanRedo' = w.canRedo
  /\ autoSaveTimers' = w.autoSaveTimers
  /\ isSaving' = w.isSaving
  /\ inflight' = w.inflight
  /\ autoSaveMounted' = w.autoSaveMounted

\* handler, then the render that follows it
Handled(ev, about, w) ==
  LET w1 == autoSaveEffect(AutoSaveWorld, w) IN
  /\ BecomesAuto(w1)
  /\ lastAuto' = AutoEv(ev, about, w1)

\* ---- the autosave state machine ---------------------------------------------------
\* the store as created, the hook mounted: its first effect arms nothing
AutoSaveInit ==
  /\ content = INITIAL_DEFAULT_CONTENT
  /\ filePath = null
  /\ isDirty = FALSE
  /\ storeCanUndo = FALSE
  /\ storeCanRedo = FALSE
  /\ autoSaveTimers = <<>>
  /\ isSaving = FALSE
  /\ inflight = EmptyBag
  /\ autoSaveMounted = TRUE
  /\ lastAuto = NoEvent
  /\ undoStack = <<>>
  /\ redoStack = <<>>
  /\ maxSize = HookMaxSize
  /\ HistoryObsAbsent
  /\ EditorAbsent
  /\ RecentAbsent

\* any writer of the content: a user edit, an undo, a redo
ContentWritten(newContent) ==
  /\ Handled("setContent", null, setContent(AutoSaveWorld, newContent))
  /\ UNCHANGED <<historyVars, historyObs, editorVars, recentVars>>

\* openFileByPath(path) resolves with the file's content
FileOpened(path, fileContent) ==
  /\ Handled("open", null, openFileByPath(AutoSaveWorld, [path |-> path, content |-> fileContent]))
  /\ UNCHANGED <<historyVars, historyObs, editorVars, recentVars>>

\* newFile()
DocumentReset ==
  /\ Handled("new", null, newFile(AutoSaveWorld))
  /\ UNCHANGED <<historyVars, historyObs, editorVars, recentVars>>

\* the autosave timer fires, AUTO_SAVE_DELAY after it was armed
AutoSaveTimerFire ==
  /\ autoSaveTimers # <<>>
  /\ Handled("fire", null, autoSaveTimerFired(AutoSaveWorld))
  /\ UNCHANGED <<historyVars, historyObs, editorVars, recentVars>>

\* the user saves: saveFile() from the menu or the shortcut
ExplicitSave ==
  /\ SavesBy("user", inflight) < MaxExplicitSaves
  /\ Handled("save", null, saveFile(AutoSaveWorld, "user"))
  /\ UNCHANGED <<historyVars, historyObs, editorVars, recentVars>>

\* a save dialog closes
DialogCloses(e, selected) ==
  /\ BagIn(e, inflight)
  /\ e.awaiting = "dialog"
  /\ Handled("dialog", Settled(e, selected), dialogClosed(AutoSaveWorld, e, selected))
  /\ UNCHANGED <<historyVars, historyObs, editorVars, recentVars>>

\* a save_file command resolves
SaveSettles(e, outcome) ==
  /\ BagIn(e, inflight)
  /\ e.awaiting = "save_file"
  /\ Handled("settled", Settled(e, outcome), saveSettled(AutoSaveWorld, e, outcome))
  /\ UNCHANGED <<historyVars, historyObs, editorVars, recentVars>>

\* the component using the hook unmounts
UnmountAutoSave ==
  /\ autoSaveMounted
  /\ Handled("unmount", null, unmountAutoSave(AutoSaveWorld))
  /\ UNCHANGED <<historyVars, historyObs, editorVars, recentVars>>

AutoSaveNext ==
  \/ \E newContent \in Contents : ContentWritten(newContent)
  \/ \E path \in Paths, fileContent \in Contents : FileOpened(path, fileContent)
  \/ DocumentReset
  \/ AutoSaveTimerFire
  \/ ExplicitSave
  \/ \E e \in DialogSaves, selected \in {null} \cup {<<path>> : path \in Paths} :
       DialogCloses(e, selected)
  \/ \E e \in CommandSaves, outcome \in Outcomes : SaveSettles(e, outcome)
  \/ UnmountAutoSave

SpecAutoSave == AutoSaveInit /\ [][AutoSaveNext]_vars

\* the hook on its own, with its timer served: content writes, loads, resets,
\* timer firings, the results of the saves autosave started and the unmount;
\* a pending autosave timer that stays pending fires (setTimeout runs its
\* callback once the delay has passed)
AutoSaveAloneNext ==
  \/ \E newContent \in Contents : ContentWritten(newContent)
  \/ \E path \in Paths, fileContent \in Contents : FileOpened(path, fileContent)
  \/ DocumentReset
  \/ AutoSaveTimerFire
  \/ \E e \in CommandSaves, outcome \in Outcomes : SaveSettles(e, outcome)
  \/ UnmountAutoSave

SpecAutoSaveFair ==
  AutoSaveInit /\ [][AutoSaveAloneNext]_vars /\ WF_vars(AutoSaveTimerFire)

\* ---- C20 ------------------------------------------------------------------------
\* C20: an autosave timer is pending only while filePath is non-null and isDirty
\* is true; a save is started by autosave only by its timer firing, at a moment
\* when filePath is non-null and isDirty is true, and it is a save_file to that
\* path, never a save dialog.
C20_AutoSavePrecondition ==
  /\ autoSaveTimers # <<>> => (filePath # null /\ isDirty)
  /\ (lastAuto.ev # "none" /\ lastAuto.started)
       => /\ lastAuto.ev = "fire"
          /\ lastAuto.pre.filePath # null
          /\ lastAuto.pre.isDirty
  /\ \A e \in BagToSet(inflight) :
       e.by = "auto" => (e.via = "saveFile" /\ e.path # null)

C20_Witness ==
  /\ lastAuto.ev = "fire"
  /\ lastAuto.started
  /\ SavesBy("auto", inflight) = 1
  /\ SavesBy("user", inflight) = 1

\* ---- shorthands for the observed autosave event -----------------------------------
AutoHappened(ev) == lastAuto.ev = ev

\* a save_file command started by `by` has just resolved
SettledBy(by) == AutoHappened("settled") /\ lastAuto.about[1].by = by

SettledAs(outcome) == AutoHappened("settled") /\ lastAuto.about[1].outcome = outcome

\* save_file commands awaiting their result
SaveCalls(flights) == Copies({e \in BagToSet(flights) : e.awaiting = "save_file"}, flights)

\* the autosave in flight carries the given path and content
AutoSaveCarries(path, saved) ==
  \E e \in BagToSet(inflight) : e.by = "auto" /\ e.path = path /\ e.content = saved

\* ---- C21 ------------------------------------------------------------------------
\* C21 as stated: at most one autosave timer is pending, it was armed by the
\* latest change of the store, and every firing of it starts a save, the only
\* one since the last content write, carrying the content of that write.
C21_BurstSavedOnce ==
  /\ Len(autoSaveTimers) <= 1
  /\ autoSaveTimers # <<>>
       => Head(autoSaveTimers) = [filePath |-> filePath, isDirty |-> isDirty]
  /\ StartsSoFar <= 1
  /\ AutoHappened("fire")
       => /\ lastAuto.started
          /\ AutoSaveCarries(lastAuto.pre.filePath, lastAuto.pre.content)
          /\ autoSaveTimers = <<>>

\* C21: at most one autosave timer is pending and it was armed by the latest
\* change of the store; at most one save is started by autosave after a
\* content write, and a firing that finds no autosave in flight starts that
\* save, carrying the store content of the moment, and leaves no timer.
C21_BurstSavedOnceUnlessInFlight ==
  /\ Len(autoSaveTimers) <= 1
  /\ autoSaveTimers # <<>>
       => Head(autoSaveTimers) = [filePath |-> filePath, isDirty |-> isDirty]
  /\ StartsSoFar <= 1
  /\ (AutoHappened("fire") /\ ~lastAuto.pre.isSaving)
       => /\ lastAuto.started
          /\ AutoSaveCarries(lastAuto.pre.filePath, lastAuto.pre.content)
          /\ autoSaveTimers = <<>>

C21_Witness ==
  /\ AutoHappened("fire")
  /\ ~lastAuto.pre.isSaving
  /\ lastAuto.started
  /\ lastAuto.sinceEdit = 1
  /\ lastAuto.edits = 2
  /\ inflight = SetToBag({[by |-> "auto", via |-> "saveFile", awaiting |-> "save_file",
                           path |-> filePath, content |-> content]})

\* ---- C22 ------------------------------------------------------------------------
\* C22: at most one save started by autosave is in flight; a firing of the
\* timer while isSaving is true starts nothing and leaves no timer pending.
C22_SingleFlightAutoSave ==
  /\ SavesBy("auto", inflight) <= 1
  /\ (AutoHappened("fire") /\ lastAuto.pre.isSaving)
       => /\ ~lastAuto.started
          /\ SavesBy("auto", inflight) = 1
          /\ autoSaveTimers = <<>>

C22_Witness ==
  /\ AutoHappened("fire")
  /\ lastAuto.pre.isSaving
  /\ isDirty
  /\ ~AutoSaveCarries(filePath, content)

\* ---- C23 ------------------------------------------------------------------------
\* C23: at most one save_file command is in flight at any time, whether
\* started by autosave or by an explicit save.
C23_SharedSingleFlight ==
  SaveCalls(inflight) <= 1

\* ---- C24 ------------------------------------------------------------------------
\* C24: isSaving is true exactly while a save started by autosave is in
\* flight; once that save resolves, with success, failure or a rejection,
\* isSaving is false.
C24_GuardReleased ==
  /\ isSaving <=> (SavesBy("auto", inflight) = 1)
  /\ SettledBy("auto") => ~isSaving

C24_Witness ==
  /\ SettledBy("auto")
  /\ SettledAs("rejected")
  /\ isDirty
  /\ filePath # null

C26_NoAutoSaveAfterUnmount ==
  ~autoSaveMounted
    => /\ autoSaveTimers = <<>>
       /\ ~lastAuto.started

C26_Witness ==
  /\ AutoHappened("unmount")
  /\ lastAuto.pre.autoSaveTimers # <<>>
  /\ filePath # null
  /\ isDirty

\* ---- C27 ------------------------------------------------------------------------
\* C27: when a saveFile started for one document resolves after another file
\* path has been loaded, isDirty stays as it was.
C27_StaleSaveInert ==
  (AutoHappened("settled")
     /\ lastAuto.about[1].via = "saveFile"
     /\ lastAuto.about[1].path # lastAuto.pre.filePath)
    => isDirty = lastAuto.pre.isDirty

\* ---- C28 ------------------------------------------------------------------------
\* the effect run against any earlier render arms or cancels a timer and
\* changes nothing else
EffectOnlyArms ==
  \A c \in Contents \cup {EmptyContent}, path \in {null} \cup {<<q>> : q \in Paths},
     dirty \in BOOLEAN :
    LET rendered == [AutoSaveWorld EXCEPT !.content = c, !.filePath = path, !.isDirty = dirty]
    IN  [autoSaveEffect(rendered, AutoSaveWorld) EXCEPT !.autoSaveTimers = autoSaveTimers]
          = AutoSaveWorld

\* C28: no step of autosave (arming or cancelling its timer, firing, skipping,
\* a save of its own resolving, unmounting) changes the content or the file
\* path; of the store it changes only isDirty, to false, when its save
\* succeeds; the local buffer and the history stacks stay as they were when
\* the hook was mounted.
C28_AutoSaveOnlyReads ==
  /\ EffectOnlyArms
  /\ (AutoHappened("fire") \/ SettledBy("auto") \/ AutoHappened("unmount"))
       => /\ content = lastAuto.pre.content
          /\ filePath = lastAuto.pre.filePath
          /\ isDirty = lastAuto.pre.isDirty \/ (SettledAs("success") /\ ~isDirty)
  /\ localContent = EmptyContent
  /\ localContentRef = EmptyContent
  /\ undoStack = <<>>
  /\ redoStack = <<>>

C28_Witness ==
  /\ SettledBy("auto")
  /\ SettledAs("success")
  /\ lastAuto.pre.isDirty
  /\ ~isDirty
  /\ lastAuto.about[1].path = filePath

\* ---- C32 ------------------------------------------------------------------------
\* C32: isDirty goes from false to true only through a content write and from
\* true to false only through a successful save, a file load or a new
\* document: a content write leaves it true, a load or reset leaves it false,
\* a save_file result changes it only from true to false and only on
\* success, and a timer firing, the start of a save, a dialog closing and the
\* hook's unmount leave it as it was.
C32_DirtyStateMachine ==
  /\ AutoHappened("setContent") => isDirty
  /\ (AutoHappened("open") \/ AutoHappened("new")) => ~isDirty
  /\ lastAuto.ev \in {"fire", "save", "dialog", "unmount"} => isDirty = lastAuto.pre.isDirty
  /\ (AutoHappened("settled") /\ isDirty # lastAuto.pre.isDirty)
       => (lastAuto.pre.isDirty /\ ~isDirty /\ SettledAs("success"))

C32_Witness ==
  /\ SettledBy("user")
  /\ SettledAs("success")
  /\ lastAuto.about[1].via = "saveFileAs"
  /\ lastAuto.pre.isDirty
  /\ ~isDirty
  /\ lastAuto.pre.filePath = null

\* ---- C35 ------------------------------------------------------------------------
\* C35: isDirty = false implies saved.  Stated for the states that follow a
\* successful save_file to the current filePath, where the content most
\* recently written to filePath is the content that save carried: if isDirty
\* is false there, that content is the store content, also when user edits
\* were made while the save was in flight.
C35_CleanImpliesSaved ==
  (/\ SettledAs("success")
   /\ filePath # null
   /\ lastAuto.about[1].path = filePath
   /\ ~isDirty)
    => lastAuto.about[1].latest

\* ---- C38 ------------------------------------------------------------------------
\* C38: when an edit changes the content while filePath is non-null and no save
\* is in flight, and neither a load, a reset nor the hook's unmount follows it,
\* then, the autosave timer being served, a save_file carrying the store's
\* path and its latest content is eventually invoked.
C38_EditEventuallySaved ==
  OwedSoFar ~> ~OwedSoFar

C38_Witness ==
  /\ AutoHappened("fire")
  /\ lastAuto.pre.owed
  /\ lastAuto.started
  /\ ~lastAuto.owed
  /\ lastAuto.edits >= 2
  /\ \E e \in BagToSet(inflight) : e.by = "auto" /\ e.content = content /\ e.path = filePath

\* ==============================================================================
\* The editing session: the mounted Editor and its history together with the
\* saves of lib/fileOps.ts, started by the user one at a time.  A save writes
\* the store when its save_file command comes back; the Editor then renders
\* and runs its effects as after any other store write.
\* ==============================================================================
\* what the session observes of an event: its kind and, for the steps of a
\* save, its argument and the history, file path and local content before it
SessionEv(ev, arg) ==
  IF ev \in {"save", "dialog", "settled"}
  THEN [ev |-> ev, arg |-> arg,
        pre |-> [hm |-> this, filePath |-> filePath, localContent |-> localContent]]
  ELSE [ev |-> ev]

\* handler, then the render that follows it
SessionHandled(ev, arg, w, now) ==
  /\ Becomes(render(World, w, now))
  /\ inflight' = w.inflight
  /\ isSaving' = w.isSaving
  /\ lastEv' = SessionEv(ev, arg)

SessionEdit(newContent, now) ==
  /\ SessionHandled("edit", <<newContent>>, handleContentChange(World, newContent), now)
  /\ UNCHANGED <<mounted, burst, historyObs, autoSaveTimers, autoSaveMounted,
                 lastAuto, recentVars>>

\* the timer callback changes no React state: no render follows it
SessionTimerFire(now) ==
  /\ typingTimers # <<>>
  /\ Becomes(typingTimeoutFired(World, now))
  /\ lastEv' = SessionEv("typingFire", <<Head(typingTimers)>>)
  /\ UNCHANGED <<mounted, burst, historyObs, autoSaveVars, recentVars>>

SessionUndo(now) ==
  /\ SessionHandled("undo", null, handleUndo(World, now).w, now)
  /\ UNCHANGED <<mounted, burst, historyObs, autoSaveTimers, autoSaveMounted,
                 lastAuto, recentVars>>

SessionRedo(now) ==
  /\ SessionHandled("redo", null, handleRedo(World, now).w, now)
  /\ UNCHANGED <<mounted, burst, historyObs, autoSaveTimers, autoSaveMounted,
                 lastAuto, recentVars>>

SessionOpen(path, fileContent, now) ==
  /\ SessionHandled("open", <<fileContent>>,
                    openFileByPath(World, [path |-> path, content |-> fileContent]), now)
  /\ UNCHANGED <<mounted, burst, historyObs, autoSaveTimers, autoSaveMounted,
                 lastAuto, recentVars>>

SessionNew(now) ==
  /\ SessionHandled("new", <<EmptyContent>>, newFile(World), now)
  /\ UNCHANGED <<mounted, burst, historyObs, autoSaveTimers, autoSaveMounted,
                 lastAuto, recentVars>>

\* saveFile() from the menu or the shortcut, up to its first await
SaveRequested(now) ==
  /\ inflight = EmptyBag
  /\ SessionHandled("save", null, saveFile(World, "user"), now)
  /\ UNCHANGED <<mounted, burst, historyObs, autoSaveTimers, autoSaveMounted,
                 lastAuto, recentVars>>

\* the save dialog of saveFileAs closes
SaveDialogCloses(e, selected, now) ==
  /\ BagIn(e, inflight)
  /\ e.awaiting = "dialog"
  /\ SessionHandled("dialog", <<[via |-> e.via, outcome |-> selected]>>,
                    dialogClosed(World, e, selected), now)
  /\ UNCHANGED <<mounted, burst, historyObs, autoSaveTimers, autoSaveMounted,
                 lastAuto, recentVars>>

\* the save_file command of a save resolves
SaveCommandSettles(e, outcome, now) ==
  /\ BagIn(e, inflight)
  /\ e.awaiting = "save_file"
  /\ SessionHandled("settled", <<[via |-> e.via, outcome |-> outcome]>>,
                    saveSettled(World, e, outcome), now)
  /\ UNCHANGED <<mounted, burst, historyObs, autoSaveTimers, autoSaveMounted,
                 lastAuto, recentVars>>

SessionNext ==
  \/ \E newContent \in Contents, now \in Clock : SessionEdit(newContent, now)
  \/ \E now \in Clock : SessionTimerFire(now)
  \/ \E now \in Clock : SessionUndo(now)
  \/ \E now \in Clock : SessionRedo(now)
  \/ \E path \in Paths, fileContent \in Contents, now \in Clock :
       SessionOpen(path, fileContent, now)
  \/ \E now \in Clock : SessionNew(now)
  \/ \E now \in Clock : SaveRequested(now)
  \/ \E e \in DialogSaves, selected \in {null} \cup {<<path>> : path \in Paths}, now \in Clock :
       SaveDialogCloses(e, selected, now)
  \/ \E e \in CommandSaves, outcome \in Outcomes, now \in Clock :
       SaveCommandSettles(e, outcome, now)

SpecSession == EditorInit /\ [][SessionNext]_vars

\* the last event was a step of a save
SaveStepped == lastEv.ev \in {"save", "dialog", "settled"}

\* ---- C37 ------------------------------------------------------------------------
\* C37: saving never touches history: the start of a save, the closing of its
\* dialog and the result of its save_file command, whatever it is, leave
\* undoStack and redoStack as they were, also for Save As on an untitled
\* document.
C37_SaveLeavesHistory ==
  SaveStepped => HistoryUntouched

\* ---- C39 ------------------------------------------------------------------------
\* C39: whenever the mounted Editor is idle, after a user edit, a file load, a
\* new-document reset, an undo, a redo, a timer push or a step of a save has
\* been handled and rendered, its local content equals the store content.
C39_LocalEqualsStore ==
  mounted => localContent = content

C39_Witness ==
  /\ mounted
  /\ Happened("settled")
  /\ lastEv.arg[1].via = "saveFileAs"
  /\ lastEv.arg[1].outcome = "success"
  /\ lastEv.pre.filePath # filePath
  /\ content # INITIAL_DEFAULT_CONTENT
  /\ lastEv.pre.hm.redoStack # <<>>
  /\ lastEv.pre.localContent = localContent

\* ==============================================================================
\* The recent-files list of the store: addRecentFile and clearRecentFiles.
\* ==============================================================================
MAX_RECENT_FILES == 10

\* calls made on the list in one behaviour
MaxRecentCalls == 3

\* file paths, numbered: one more than the list can hold; and file names
RecentPaths == 1..(MAX_RECENT_FILES + 1)
RecentNames == {"n"}

\* the list after the paths 1..k have been added in turn to the empty list
AddedInTurn(k) ==
  [i \in 1..Min(k, MAX_RECENT_FILES) |->
     [path |-> k - i + 1, name |-> "n", lastOpened |-> 1]]

PathsOf(files) == {files[i].path : i \in DOMAIN files}

\* state.recentFiles.filter((f) => f.path !== path)
Filtered(files, path) ==
  LET keep(f) == f.path # path IN SelectSeq(files, keep)

\* Array.prototype.slice(0, n)
Slice(seq, n) == SubSeq(seq, 1, Min(n, Len(seq)))

addRecentFile_keepsOld(files, path, name, now) ==
  Slice(<<[path |-> path, name |-> name, lastOpened |-> now]>> \o files, MAX_RECENT_FILES)

addRecentFile(files, path, name, now) ==
  LET filtered == Filtered(files, path)
      added == [path |-> path, name |-> name, lastOpened |-> now]
  IN  Slice(<<added>> \o filtered, MAX_RECENT_FILES)

clearRecentFiles(files) == <<>>

RecentCall(op, arg) == [ev |-> op, arg |-> arg, pre |-> recentFiles]

RecentInit ==
  /\ recentFiles \in {AddedInTurn(k) : k \in 0..(MAX_RECENT_FILES + 1)}
  /\ recentCalls = 0
  /\ lastRecent = NoEvent
  /\ undoStack = <<>>
  /\ redoStack = <<>>
  /\ maxSize = HookMaxSize
  /\ HistoryObsAbsent
  /\ StoreAbsent
  /\ EditorAbsent
  /\ AutoSaveAbsent

AddRecentFile(path, name, now) ==
  /\ recentCalls < MaxRecentCalls
  /\ recentCalls' = recentCalls + 1
  /\ recentFiles' = addRecentFile(recentFiles, path, name, now)
  /\ lastRecent' = RecentCall("add", <<path>>)
  /\ UNCHANGED <<historyVars, historyObs, storeVars, editorVars, autoSaveVars>>

ClearRecentFiles ==
  /\ recentCalls < MaxRecentCalls
  /\ recentCalls' = recentCalls + 1
  /\ recentFiles' = clearRecentFiles(recentFiles)
  /\ lastRecent' = RecentCall("clear", null)
  /\ UNCHANGED <<historyVars, historyObs, storeVars, editorVars, autoSaveVars>>

RecentNext ==
  \/ \E path \in RecentPaths, name \in RecentNames, now \in Clock :
       AddRecentFile(path, name, now)
  \/ ClearRecentFiles

SpecRecent == RecentInit /\ [][RecentNext]_vars

\* ---- C30 ------------------------------------------------------------------------
\* C30: the recent-files list holds at most MAX_RECENT_FILES entries and no
\* path twice; after addRecentFile(path) the path is first and the entries
\* behind it are those the list held before, less that path, in their old
\* order, cut to fit (so re-adding a listed path does not lengthen the list);
\* after clearRecentFiles the list is empty.
C30_RecentFiles ==
  /\ Len(recentFiles) <= MAX_RECENT_FILES
  /\ \A i, j \in DOMAIN recentFiles : recentFiles[i].path = recentFiles[j].path => i = j
  /\ lastRecent.ev = "add"
       => /\ recentFiles # <<>>
          /\ recentFiles[1].path = lastRecent.arg[1]
          /\ Tail(recentFiles)
               = Slice(Filtered(lastRecent.pre, lastRecent.arg[1]), MAX_RECENT_FILES - 1)
          /\ lastRecent.arg[1] \in PathsOf(lastRecent.pre)
               => Len(recentFiles) = Len(lastRecent.pre)
  /\ lastRecent.ev = "clear" => recentFiles = <<>>

C30_Witness ==
  /\ lastRecent.ev = "add"
  /\ Len(lastRecent.pre) = MAX_RECENT_FILES
  /\ lastRecent.arg[1] \in PathsOf(lastRecent.pre)
  /\ lastRecent.pre[1].path # lastRecent.arg[1]
  /\ recentCalls >= 2

====
